---- MODULE Spec2Model ----
\* A model of src/src/main.py: the HTTP handler of POST /message (the
\* ingress), the relay socket server with one handling thread per accepted
\* connection, and the MongoDB collection the threads insert into.
\*
\* Text is a sequence of one-character strings; the bytes on a connection
\* are the same sequences (every character the model uses is ASCII, so
\* UTF-8 encodes each as one byte).
EXTENDS Integers, Sequences, FiniteSets, TLC

\* ------------------------------------------------------------------ bounds
MaxClients == 2     \* clients: each posts a form or connects to the relay port
MaxRecursion == 2   \* nested send_error_page calls before RecursionError

\* ------------------------------------------------------- program constants
RecvBufSize == 1024 \* conn.recv(1024)

Clients == 1..MaxClients

Rep(c, n) == [i \in 1..n |-> c]
MinOf(S) == CHOOSE x \in S : \A y \in S : x <= y

\* ------------------------------------------------------------- json.dumps
\* The dictionary keys of the program.
K_username == <<"u", "s", "e", "r", "n", "a", "m", "e">>
K_message == <<"m", "e", "s", "s", "a", "g", "e">>
K_date == <<"d", "a", "t", "e">>

NeedsEscape(c) == c \in {"\"", "\\"}

RECURSIVE EscapeRec(_)
EscapeRec(s) ==
    IF s = <<>> THEN <<>>
    ELSE (IF NeedsEscape(Head(s)) THEN <<"\\", Head(s)>> ELSE <<Head(s)>>)
             \o EscapeRec(Tail(s))

\* A string with nothing to escape is copied as it is.
Escape(s) ==
    IF \A i \in 1..Len(s) : ~NeedsEscape(s[i]) THEN s ELSE EscapeRec(s)

Quote(s) == <<"\"">> \o Escape(s) \o <<"\"">>

\* json.dumps({"username": u, "message": m}).encode("utf-8"): the default
\* separators ", " and ": ", the keys in insertion order.
JsonDumps(message) ==
    <<"{">> \o Quote(K_username) \o <<":", " ">> \o Quote(message.username)
        \o <<",", " ">> \o Quote(K_message) \o <<":", " ">>
        \o Quote(message.message) \o <<"}">>

\* ------------------------------------------------------------- json.loads
\* A decoder of the JSON the model's payloads are written in: objects,
\* arrays, strings with the escapes \" \\ \/, unsigned integers, null, and
\* spaces as whitespace. Values are tagged: [t |-> "obj", v |-> keys -> values],
\* [t |-> "arr", v |-> sequence], [t |-> "str", v |-> text],
\* [t |-> "num", v |-> n], [t |-> "null"].
ParseFail == [ok |-> FALSE, v |-> [t |-> "none"], i |-> 0]
ParseOk(v, i) == [ok |-> TRUE, v |-> v, i |-> i]

Digits == {"0", "1", "2", "3", "4", "5", "6", "7", "8", "9"}
DigitVal(c) ==
    CHOOSE n \in 0..9 : <<"0", "1", "2", "3", "4", "5", "6", "7", "8", "9">>[n + 1] = c

\* The byte no UTF-8 text contains.
InvalidByte == "xFF"

\* data.decode("utf-8") raises UnicodeDecodeError on a byte that is no UTF-8.
Utf8Decodes(data) == \A i \in 1..Len(data) : data[i] # InvalidByte

SkipWs(s, i) ==
    IF i <= Len(s) /\ s[i] # " " THEN i
    ELSE LET nonws == {j \in i..Len(s) : s[j] # " "}
         IN IF nonws = {} THEN Len(s) + 1 ELSE MinOf(nonws)

\* The number of backslashes that end at position i.
RECURSIVE BackslashRun(_, _)
BackslashRun(s, i) ==
    IF i >= 1 /\ s[i] = "\\" THEN 1 + BackslashRun(s, i - 1) ELSE 0

RECURSIVE UnescapeRec(_)
UnescapeRec(s) ==
    IF s = <<>> THEN [ok |-> TRUE, v |-> <<>>]
    ELSE IF Head(s) # "\\" THEN
        LET r == UnescapeRec(Tail(s))
        IN [ok |-> r.ok, v |-> <<Head(s)>> \o r.v]
    ELSE IF Len(s) >= 2 /\ s[2] \in {"\"", "\\", "/"} THEN
        LET r == UnescapeRec(Tail(Tail(s)))
        IN [ok |-> r.ok, v |-> <<s[2]>> \o r.v]
    ELSE [ok |-> FALSE, v |-> <<>>]

Unescape(s) ==
    IF \A i \in 1..Len(s) : s[i] # "\\" THEN [ok |-> TRUE, v |-> s]
    ELSE UnescapeRec(s)

\* A string starts at i with a quote and ends at the first quote that an
\* even number of backslashes precedes.
ParseString(s, i) ==
    LET ends == {j \in (i + 1)..Len(s) :
                    s[j] = "\"" /\ BackslashRun(s, j - 1) % 2 = 0}
    IN IF i > Len(s) \/ s[i] # "\"" \/ ends = {} THEN ParseFail
       ELSE LET e == MinOf(ends)
                u == Unescape(SubSeq(s, i + 1, e - 1))
            IN IF u.ok THEN ParseOk([t |-> "str", v |-> u.v], e + 1)
               ELSE ParseFail

RECURSIVE NumVal(_, _, _)
NumVal(s, i, acc) ==
    IF i <= Len(s) /\ s[i] \in Digits
    THEN NumVal(s, i + 1, acc * 10 + DigitVal(s[i]))
    ELSE ParseOk([t |-> "num", v |-> acc], i)

\* A number that starts with 0 is the number 0: what follows is extra data.
ParseNumber(s, i) ==
    IF s[i] = "0" THEN ParseOk([t |-> "num", v |-> 0], i + 1)
    ELSE NumVal(s, i, 0)

ParseLiteral(s, i, word, val) ==
    IF i + Len(word) - 1 <= Len(s) /\ SubSeq(s, i, i + Len(word) - 1) = word
    THEN ParseOk(val, i + Len(word))
    ELSE ParseFail

RECURSIVE ParseValue(_, _), ParseMembers(_, _, _), ParseElements(_, _, _)
ParseValue(s, i) ==
    IF i > Len(s) THEN ParseFail
    ELSE IF s[i] = "\"" THEN ParseString(s, i)
    ELSE IF s[i] = "{" THEN
        LET j == SkipWs(s, i + 1)
        IN IF j <= Len(s) /\ s[j] = "}"
           THEN ParseOk([t |-> "obj", v |-> <<>>], j + 1)
           ELSE ParseMembers(s, j, <<>>)
    ELSE IF s[i] = "[" THEN
        LET j == SkipWs(s, i + 1)
        IN IF j <= Len(s) /\ s[j] = "]"
           THEN ParseOk([t |-> "arr", v |-> <<>>], j + 1)
           ELSE ParseElements(s, j, <<>>)
    ELSE IF s[i] \in Digits THEN ParseNumber(s, i)
    ELSE IF s[i] = "n" THEN ParseLiteral(s, i, <<"n", "u", "l", "l">>, [t |-> "null"])
    ELSE ParseFail

\* "key": value pairs up to the closing brace; a repeated key keeps its last
\* value, as a Python dict does.
ParseMembers(s, i, acc) ==
    LET k == ParseString(s, i)
        c == SkipWs(s, k.i)
        val == ParseValue(s, SkipWs(s, c + 1))
        d == SkipWs(s, val.i)
    IN IF ~k.ok \/ c > Len(s) \/ s[c] # ":" THEN ParseFail
       ELSE IF ~val.ok \/ d > Len(s) THEN ParseFail
       ELSE LET obj == (k.v.v :> val.v) @@ acc
            IN IF s[d] = "}" THEN ParseOk([t |-> "obj", v |-> obj], d + 1)
               ELSE IF s[d] = "," THEN ParseMembers(s, SkipWs(s, d + 1), obj)
               ELSE ParseFail

ParseElements(s, i, acc) ==
    LET val == ParseValue(s, i)
        d == SkipWs(s, val.i)
    IN IF ~val.ok \/ d > Len(s) THEN ParseFail
       ELSE IF s[d] = "]" THEN ParseOk([t |-> "arr", v |-> Append(acc, val.v)], d + 1)
       ELSE IF s[d] = "," THEN ParseElements(s, SkipWs(s, d + 1), Append(acc, val.v))
       ELSE ParseFail

\* A decoder that takes what it cannot parse for an empty object.
JsonLoadsLenient(data) ==
    LET r == ParseValue(data, SkipWs(data, 1))
    IN IF Utf8Decodes(data) /\ r.ok /\ SkipWs(data, r.i) = Len(data) + 1
       THEN [ok |-> TRUE, v |-> r.v]
       ELSE [ok |-> TRUE, v |-> [t |-> "obj", v |-> <<>>]]

\* json.loads(data.decode("utf-8")): one value, whitespace around it, and
\* nothing else; anything else raises.
JsonLoads(data) ==
    LET r == ParseValue(data, SkipWs(data, 1))
    IN IF Utf8Decodes(data) /\ r.ok /\ SkipWs(data, r.i) = Len(data) + 1
       THEN [ok |-> TRUE, v |-> r.v]
       ELSE [ok |-> FALSE, v |-> [t |-> "none"]]

\* ------------------------------------------------------------------ inputs
Alice == <<"a", "l">>
Tricky == <<"h", "\"", "\\">>

\* The bytes of a submission by Alice besides the message text.
Overhead == Len(JsonDumps([username |-> Alice, message |-> <<>>]))

\* The longest message of Alice's that fits one recv, and the next longer.
FitMsg == Rep("x", RecvBufSize - Overhead)
OverMsg == Rep("x", RecvBufSize - Overhead + 1)

\* What a POST carries: the path and the values params.get(...)[0] yields
\* ("" for a field that is absent or blank).
FormInputs ==
    { [path |-> "/message", username |-> Alice, message |-> Tricky],
      [path |-> "/message", username |-> Alice, message |-> FitMsg],
      [path |-> "/message", username |-> Alice, message |-> OverMsg],
      [path |-> "/message", username |-> <<>>, message |-> Tricky],
      [path |-> "/message", username |-> Alice, message |-> <<>>],
      [path |-> "/other", username |-> Alice, message |-> Tricky] }

\* What a direct client writes, as the segments of its successive sends.
NotObject == <<"[", "1", "]">>
DateOnly == <<"{", "\"", "d", "a", "t", "e", "\"", ":", " ", "7", "}">>
PeerPayloads ==
    { <<>>,
      <<NotObject>>,
      <<<<"{">>, Tail(DateOnly)>> }

\* ------------------------------------------------------------------- state
VARIABLES
    req,         \* the HTTP request threads, by client
    peer,        \* the direct clients of the relay port, by client
    conns,       \* the connections to the relay port, in order of connect
    server,      \* run_socket_server
    unit,        \* the handle_socket_connection threads, one slot per connection
    collection,  \* the documents insert_one stored, in order
    clock        \* the wall clock: it has moved on at every reading

vars == <<req, peer, conns, server, unit, collection, clock>>

ReqInit ==
    [pc |-> "idle", path |-> "", username |-> <<>>, message |-> <<>>,
     conn |-> 0, connects |-> 0, sends |-> 0,
     resp |-> <<>>, depth |-> 0, err |-> ""]

PeerInit == [pc |-> "idle", segs |-> <<>>, conn |-> 0]

\* A connection: who opened it, the bytes sent and not yet received, the
\* bytes the server side wrote, and where each end is.
NewConn(src) ==
    [src |-> src, toSrv |-> <<>>, toCli |-> <<>>, cliClosed |-> FALSE,
     state |-> "queued", srvCloses |-> 0]

UnitInit ==
    [pc |-> "none", data |-> <<>>, message |-> [t |-> "none"],
     recvs |-> 0, stamps |-> 0, inserts |-> 0, closes |-> 0, err |-> ""]

Init ==
    /\ req = [s \in Clients |-> ReqInit]
    /\ peer = [p \in Clients |-> PeerInit]
    /\ conns = <<>>
    /\ server = [pc |-> "init", conn |-> 0, bound |-> FALSE]
    /\ unit = <<>>
    /\ collection = <<>>
    /\ clock = 0

Conns == 1..Len(conns)
Listening == server.pc \in {"accept", "start"}

\* Client k has not shown up yet, as an HTTP request or as a direct peer.
\* Clients are numbered in the order they show up.
Absent(k) == req[k].pc = "idle" /\ peer[k].pc = "idle"
Arrives(k) == Absent(k) /\ (k > 1 => ~Absent(k - 1))

\* ----------------------------------------------------- the ingress handler
\* A validation that looks at the username alone.
MissingUsername(message) == message.username = <<>>

\* `not message.get("username") or not message.get("message")`
MissingField(message) == message.username = <<>> \/ message.message = <<>>

\* redirect_to_home: the 302 response, the last thing do_POST does.
redirect_to_home(r) == [r EXCEPT !.resp = Append(@, "302 /"), !.pc = "done"]

\* A do_POST that answers a transport failure with the error page.
AfterSendToSocketChecked(r) ==
    IF r.err = "transport"
    THEN [r EXCEPT !.resp = Append(@, "404 error.html"), !.pc = "done"]
    ELSE redirect_to_home(r)

\* A send_to_socket that tries once more after a transport failure.
AfterSendToSocketRetry(r) ==
    IF r.err = "transport" /\ r.connects < 2
    THEN [r EXCEPT !.pc = "connect", !.err = ""]
    ELSE redirect_to_home(r)

\* What do_POST does once send_to_socket has returned.
AfterSendToSocket(r) == redirect_to_home(r)

\* do_POST up to the first thing it does outside its thread: a path other
\* than /message goes to send_error_page; otherwise send_to_socket validates
\* the message and either goes to send_error_page and returns to do_POST,
\* or goes on to connect.
do_POST(s) ==
    /\ Arrives(s)
    /\ \E in \in FormInputs :
        LET message == [username |-> in.username, message |-> in.message]
        IN req' = [req EXCEPT ![s] = [@ EXCEPT
                !.path = in.path,
                !.username = in.username,
                !.message = in.message,
                !.pc = IF in.path # "/message" \/ MissingField(message)
                       THEN "send_error_page" ELSE "connect",
                !.err = IF in.path = "/message" /\ MissingField(message)
                        THEN "validation" ELSE ""]]
    /\ UNCHANGED <<peer, conns, server, unit, collection, clock>>

\* send_error_page calls send_html_file("error.html", 404), which sends the
\* file, or, the file missing, logs and calls send_error_page again. The
\* interpreter ends the recursion with RecursionError, which nothing in the
\* handler catches: the thread ends with no further response. When the page
\* is sent the calls return: to the end of do_POST for another path, and
\* through send_to_socket to line 73 of do_POST for /message.
send_error_page(s) ==
    /\ req[s].pc = "send_error_page"
    /\ \E exists \in BOOLEAN :
        req' = [req EXCEPT ![s] =
            IF exists
            THEN LET sent == [@ EXCEPT !.resp = Append(@, "404 error.html")]
                 IN IF req[s].path = "/message" THEN AfterSendToSocket(sent)
                    ELSE [sent EXCEPT !.pc = "done"]
            ELSE IF req[s].depth + 1 >= MaxRecursion
            THEN [@ EXCEPT !.depth = @ + 1, !.pc = "crashed"]
            ELSE [@ EXCEPT !.depth = @ + 1]]
    /\ UNCHANGED <<peer, conns, server, unit, collection, clock>>

\* client_socket.connect: a connection in the listener's queue, or an
\* exception (refused), which send_to_socket logs before it returns.
send_to_socket_connect(s) ==
    /\ req[s].pc = "connect"
    /\ IF Listening
       THEN /\ conns' = Append(conns, NewConn(<<"req", s>>))
            /\ unit' = Append(unit, UnitInit)
            /\ req' = [req EXCEPT ![s] = [@ EXCEPT
                    !.conn = Len(conns) + 1, !.connects = @ + 1, !.pc = "sendall"]]
       ELSE /\ req' = [req EXCEPT ![s] = AfterSendToSocket(
                    [@ EXCEPT !.connects = @ + 1, !.err = "transport"])]
            /\ UNCHANGED <<conns, unit>>
    /\ UNCHANGED <<peer, server, collection, clock>>

\* The other end of connection c is gone.
Broken(c) == conns[c].state = "reset" \/ conns[c].srvCloses > 0

\* client_socket.sendall(json.dumps(message).encode("utf-8")) and the end of
\* the with block: the bytes are queued for the server and the client socket
\* is closed; on a broken connection sendall may raise instead, and the
\* socket is closed all the same. send_to_socket returns either way.
send_to_socket_sendall(s) ==
    /\ req[s].pc = "sendall"
    /\ LET c == req[s].conn
           message == [username |-> req[s].username, message |-> req[s].message]
       IN \E raises \in (IF Broken(c) THEN BOOLEAN ELSE {FALSE}) :
            /\ conns' = [conns EXCEPT ![c] = [@ EXCEPT
                    !.toSrv = IF raises THEN @ ELSE @ \o JsonDumps(message),
                    !.cliClosed = TRUE]]
            /\ req' = [req EXCEPT ![s] = AfterSendToSocket([@ EXCEPT
                    !.sends = @ + 1,
                    !.err = IF raises THEN "transport" ELSE @])]
    /\ UNCHANGED <<peer, server, unit, collection, clock>>

\* --------------------------------------------------------- direct clients
PeerConnect(p) ==
    /\ Arrives(p)
    /\ Listening
    /\ \E segs \in PeerPayloads :
        peer' = [peer EXCEPT ![p] = [pc |-> "open", segs |-> segs, conn |-> Len(conns) + 1]]
    /\ conns' = Append(conns, NewConn(<<"peer", p>>))
    /\ unit' = Append(unit, UnitInit)
    /\ UNCHANGED <<req, server, collection, clock>>

PeerSend(p) ==
    /\ peer[p].pc = "open"
    /\ peer[p].segs # <<>>
    /\ ~Broken(peer[p].conn)
    /\ conns' = [conns EXCEPT ![peer[p].conn].toSrv = @ \o Head(peer[p].segs)]
    /\ peer' = [peer EXCEPT ![p].segs = Tail(@)]
    /\ UNCHANGED <<req, server, unit, collection, clock>>

PeerClose(p) ==
    /\ peer[p].pc = "open"
    /\ peer[p].segs = <<>> \/ Broken(peer[p].conn)
    /\ conns' = [conns EXCEPT ![peer[p].conn].cliClosed = TRUE]
    /\ peer' = [peer EXCEPT ![p].pc = "done"]
    /\ UNCHANGED <<req, server, unit, collection, clock>>

\* -------------------------------------------------------- the relay server
\* The except clause of run_socket_server: the error is logged and the
\* function returns; leaving the with block closes the listening socket, and
\* the connections still in its queue are reset.
ServerExit(cs) ==
    [c \in 1..Len(cs) |->
        IF cs[c].state = "queued" THEN [cs[c] EXCEPT !.state = "reset"] ELSE cs[c]]

\* A start that logs a failed bind and goes on to the accept loop.
run_socket_server_unchecked(ok) ==
    /\ server.pc = "init"
    /\ server' = [server EXCEPT !.pc = "accept", !.bound = ok]
    /\ UNCHANGED <<req, peer, conns, unit, collection, clock>>

\* MongoClient, bind and listen: the accept loop is entered (the socket is
\* bound from then on), or bind raises (the address is in use), the except
\* clause logs and the function returns.
run_socket_server(ok) ==
    /\ server.pc = "init"
    /\ server' = [server EXCEPT !.pc = IF ok THEN "accept" ELSE "exited",
                                !.bound = ok]
    /\ UNCHANGED <<req, peer, conns, unit, collection, clock>>

Queued == {c \in Conns : conns[c].state = "queued"}

\* An accept loop that joins the threads it started before it accepts again.
accept_joined(ok) ==
    /\ server.pc = "accept"
    /\ Queued # {}
    /\ \A c \in Conns : unit[c].pc \in {"none", "done"}
    /\ conns' = [conns EXCEPT ![MinOf(Queued)].state = "accepted"]
    /\ server' = [server EXCEPT !.pc = "start", !.conn = MinOf(Queued)]
    /\ UNCHANGED <<req, peer, unit, collection, clock>>

\* server_socket.accept() returns the oldest queued connection, or raises,
\* which ends the loop.
accept(ok) ==
    /\ server.pc = "accept"
    /\ Queued # {}
    /\ IF ok
       THEN /\ conns' = [conns EXCEPT ![MinOf(Queued)].state = "accepted"]
            /\ server' = [server EXCEPT !.pc = "start", !.conn = MinOf(Queued)]
       ELSE /\ conns' = ServerExit(conns)
            /\ server' = [server EXCEPT !.pc = "exited"]
    /\ UNCHANGED <<req, peer, unit, collection, clock>>

\* threading.Thread(target=handle_socket_connection, ...).start(): the unit
\* runs and the loop accepts again; or start raises (no thread to be had),
\* the loop ends and the accepted connection is left to no one.
thread_start(ok) ==
    /\ server.pc = "start"
    /\ IF ok
       THEN /\ unit' = [unit EXCEPT ![server.conn].pc = "recv"]
            /\ server' = [server EXCEPT !.pc = "accept"]
            /\ UNCHANGED conns
       ELSE /\ conns' = ServerExit(conns)
            /\ server' = [server EXCEPT !.pc = "exited"]
            /\ UNCHANGED unit
    /\ UNCHANGED <<req, peer, collection, clock>>

\* ------------------------------------------------------ the handling units
\* A read that takes everything that has arrived.
RecvAll(buf) == buf

\* conn.recv(1024) returns the bytes that have arrived, 1024 at most.
RecvData(buf) ==
    SubSeq(buf, 1, IF Len(buf) < RecvBufSize THEN Len(buf) ELSE RecvBufSize)

\* A handler that calls insert_one again when it raised.
OnExceptionRetry(u, kind) ==
    [u EXCEPT !.err = kind, !.pc = IF kind = "insert" THEN "insert" ELSE "close"]

\* A handler whose conn.close() stands at the end of the try block.
OnExceptionNoClose(u, kind) == [u EXCEPT !.err = kind, !.pc = "done"]

\* `except Exception` logs, and `finally` runs conn.close().
OnException(u, kind) == [u EXCEPT !.err = kind, !.pc = "close"]

\* A close that first answers the client.
ConnCloseReply(conn) ==
    [conn EXCEPT !.toCli = Append(@, "k"), !.srvCloses = @ + 1]

\* A handler that decodes whatever recv returned.
AnyData(data) == TRUE

\* `if data:`
HasData(data) == data # <<>>

\* conn.close(): the server's end of the connection is closed; nothing is
\* written on it.
ConnClose(conn) == [conn EXCEPT !.srvCloses = @ + 1]

\* An assignment that keeps a date the payload brought: setdefault.
SetDateKeep(message, t) ==
    [message EXCEPT !.v = @ @@ (K_date :> [t |-> "datetime", v |-> t])]

\* message["date"] = datetime.now(): only a dict takes the assignment; a
\* list, a string, a number or None raises TypeError.
SetDate(message, t) ==
    [message EXCEPT !.v = (K_date :> [t |-> "datetime", v |-> t]) @@ @]

\* A recv with a timeout: it raises when nothing has arrived.
recv_timeout(c) ==
    /\ unit[c].pc = "recv"
    /\ LET data == RecvData(conns[c].toSrv)
       IN /\ unit' = [unit EXCEPT ![c] =
                IF conns[c].toSrv = <<>> /\ ~conns[c].cliClosed
                THEN OnException(@, "timeout")
                ELSE [@ EXCEPT !.data = data, !.recvs = @ + 1,
                               !.pc = IF HasData(data) THEN "loads" ELSE "close"]]
          /\ conns' = [conns EXCEPT ![c].toSrv = SubSeq(@, Len(data) + 1, Len(@))]
    /\ UNCHANGED <<req, peer, server, collection, clock>>

\* recv blocks until bytes have arrived or the client has closed; `if data`
\* skips everything but close when no byte was read.
recv(c) ==
    /\ unit[c].pc = "recv"
    /\ conns[c].toSrv # <<>> \/ conns[c].cliClosed
    /\ LET data == RecvData(conns[c].toSrv)
       IN /\ unit' = [unit EXCEPT ![c] = [@ EXCEPT
                    !.data = data, !.recvs = @ + 1,
                    !.pc = IF HasData(data) THEN "loads" ELSE "close"]]
          /\ conns' = [conns EXCEPT ![c].toSrv = SubSeq(@, Len(data) + 1, Len(@))]
    /\ UNCHANGED <<req, peer, server, collection, clock>>

\* The segments of segs joined.
RECURSIVE Joined(_)
Joined(segs) == IF segs = <<>> THEN <<>> ELSE Head(segs) \o Joined(Tail(segs))

\* What one recv can return of the payloads above: the first 1024 bytes of
\* a submission, or of the segments a direct client has sent so far.
Receivable ==
    {RecvData(JsonDumps([username |-> in.username, message |-> in.message])) :
        in \in FormInputs}
    \cup UNION {{RecvData(Joined(SubSeq(segs, 1, k))) : k \in 1..Len(segs)} :
                    segs \in PeerPayloads}

\* json.loads of each of them, computed once.
Decoded == [data \in Receivable |-> JsonLoads(data)]

Loads(data) == IF data \in Receivable THEN Decoded[data] ELSE JsonLoads(data)

\* message = json.loads(data.decode("utf-8"))
loads(c) ==
    /\ unit[c].pc = "loads"
    /\ LET r == Loads(unit[c].data)
       IN unit' = [unit EXCEPT ![c] =
                IF r.ok THEN [@ EXCEPT !.message = r.v, !.pc = "date"]
                ELSE OnException(@, "decode")]
    /\ UNCHANGED <<req, peer, conns, server, collection, clock>>

\* message["date"] = datetime.now()
set_date(c) ==
    /\ unit[c].pc = "date"
    /\ IF unit[c].message.t = "obj"
       THEN /\ unit' = [unit EXCEPT ![c] = [@ EXCEPT
                    !.message = SetDate(@, clock), !.stamps = @ + 1, !.pc = "insert"]]
            /\ clock' = clock + 1
       ELSE /\ unit' = [unit EXCEPT ![c] = OnException(@, "type")]
            /\ UNCHANGED clock
    /\ UNCHANGED <<req, peer, conns, server, collection>>

\* collection.insert_one(message): the document is stored, or the call
\* raises because MongoDB does not answer.
insert_one(c, ok) ==
    /\ unit[c].pc = "insert"
    /\ IF ok
       THEN /\ collection' = Append(collection, [doc |-> unit[c].message.v, unit |-> c])
            /\ unit' = [unit EXCEPT ![c] = [@ EXCEPT !.inserts = @ + 1, !.pc = "close"]]
       ELSE /\ unit' = [unit EXCEPT ![c] =
                    OnException([@ EXCEPT !.inserts = @ + 1], "insert")]
            /\ UNCHANGED collection
    /\ UNCHANGED <<req, peer, conns, server, clock>>

\* finally: conn.close(), and the thread ends.
close(c) ==
    /\ unit[c].pc = "close"
    /\ conns' = [conns EXCEPT ![c] = ConnClose(@)]
    /\ unit' = [unit EXCEPT ![c] = [@ EXCEPT !.closes = @ + 1, !.pc = "done"]]
    /\ UNCHANGED <<req, peer, server, collection, clock>>

\* ----------------------------------------------------------- specification
Next ==
    \/ \E s \in Clients : do_POST(s)
    \/ \E s \in Clients : send_error_page(s)
    \/ \E s \in Clients : send_to_socket_connect(s)
    \/ \E s \in Clients : send_to_socket_sendall(s)
    \/ \E p \in Clients : PeerConnect(p)
    \/ \E p \in Clients : PeerSend(p)
    \/ \E p \in Clients : PeerClose(p)
    \/ \E ok \in BOOLEAN : run_socket_server(ok)
    \/ \E ok \in BOOLEAN : accept(ok)
    \/ \E ok \in BOOLEAN : thread_start(ok)
    \/ \E c \in Conns : recv(c)
    \/ \E c \in Conns : loads(c)
    \/ \E c \in Conns : set_date(c)
    \/ \E c \in Conns : \E ok \in BOOLEAN : insert_one(c, ok)
    \/ \E c \in Conns : close(c)

Spec == Init /\ [][Next]_vars

\* The steps of the thread of connection c.
UnitStep(c) ==
    /\ c \in Conns
    /\ \/ recv(c)
       \/ loads(c)
       \/ set_date(c)
       \/ \E ok \in BOOLEAN : insert_one(c, ok)
       \/ close(c)

\* A started thread is scheduled: it takes its next step when it can.
\* Nothing makes a client send or close, or the accept loop go on.
FairSpec == Spec /\ \A c \in Clients : WF_vars(UnitStep(c))

\* ------------------------------------------------------------------ claims
\* Client s has posted to /message.
Posted(s) == req[s].pc # "idle" /\ req[s].path = "/message"

\* Both fields of the submission are non-empty.
NonEmpty(s) == req[s].username # <<>> /\ req[s].message # <<>>

\* The handler of client s has ended.
Ended(s) == req[s].pc \in {"done", "crashed"}

\* The documents stored by the unit of connection c, as indices of the collection.
DocsBy(c) == {i \in 1..Len(collection) : collection[i].unit = c}

\* The documents stored for the submission of client s.
DocsOfReq(s) == IF req[s].conn = 0 THEN {} ELSE DocsBy(req[s].conn)

\* The submission of client s went through with the relay server and
\* MongoDB at hand: connect and sendall returned, its unit ran to its end,
\* and insert_one, if called, did not raise.
WentThrough(s) ==
    /\ req[s].pc = "done"
    /\ req[s].err = ""
    /\ req[s].conn # 0
    /\ unit[req[s].conn].pc = "done"
    /\ unit[req[s].conn].err # "insert"

\* Document d is the submission of client s with a date of the server's.
IsDocOf(d, s) ==
    /\ DOMAIN d = {K_username, K_message, K_date}
    /\ d[K_username] = [t |-> "str", v |-> req[s].username]
    /\ d[K_message] = [t |-> "str", v |-> req[s].message]
    /\ d[K_date].t = "datetime"

\* C1: a submission with both fields non-empty, of any length, that went
\* through with the relay server and MongoDB at hand has exactly one
\* document, which carries its username, its message and a server date.
C1_OneDocument ==
    \A s \in Clients :
        Posted(s) /\ NonEmpty(s) /\ WentThrough(s) =>
            /\ Cardinality(DocsOfReq(s)) = 1
            /\ \A i \in DocsOfReq(s) : IsDocOf(collection[i].doc, s)

\* C2: a submission with an empty username or an empty message makes no
\* connection attempt, and no document is stored for it.
C2_NoConnectNoDocument ==
    \A s \in Clients :
        Posted(s) /\ ~NonEmpty(s) =>
            /\ req[s].connects = 0
            /\ req[s].sends = 0
            /\ req[s].conn = 0
            /\ \A c \in Conns : conns[c].src # <<"req", s>>
            /\ DocsOfReq(s) = {}

C2_Witness ==
    \E s \in Clients :
        /\ Posted(s) /\ Ended(s)
        /\ req[s].username # <<>> /\ req[s].message = <<>>

\* C3: when every client has posted a submission with both fields non-empty
\* and all of them went through, the collection holds one document per
\* submission: none lost, none stored twice.
C3_NoLossNoDuplicate ==
    (\A s \in Clients : Posted(s) /\ NonEmpty(s) /\ WentThrough(s)) =>
        /\ Len(collection) = MaxClients
        /\ \A s \in Clients : Cardinality(DocsOfReq(s)) = 1

\* C4: a submission with both fields non-empty is never stopped on its way
\* to the redirect: its handler does not crash or go to the error page, each
\* of its steps can be taken whatever the relay server, the units and
\* MongoDB have done, and when it has ended the response is the redirect.
C4_AlwaysRedirect ==
    \A s \in Clients :
        Posted(s) /\ NonEmpty(s) =>
            /\ req[s].pc \in {"connect", "sendall", "done"}
            /\ req[s].pc = "connect" => ENABLED send_to_socket_connect(s)
            /\ req[s].pc = "sendall" => ENABLED send_to_socket_sendall(s)
            /\ req[s].pc = "done" => req[s].resp = <<"302 /">>

\* One submission was refused by the relay server and another lost its
\* document to a failed insert; both were redirected.
C4_Witness ==
    \E s1, s2 \in Clients :
        /\ Posted(s1) /\ NonEmpty(s1) /\ Posted(s2) /\ NonEmpty(s2)
        /\ req[s1].err = "transport" /\ req[s1].resp = <<"302 /">>
        /\ req[s2].pc = "done" /\ req[s2].resp = <<"302 /">>
        /\ req[s2].conn # 0
        /\ unit[req[s2].conn].err = "insert"
        /\ collection = <<>>

\* C5: a submission with an empty username or an empty message is answered
\* with the failure page and with nothing else.
C5_FailurePageOnly ==
    \A s \in Clients :
        Posted(s) /\ ~NonEmpty(s) /\ Ended(s) =>
            req[s].resp = <<"404 error.html">>

\* The units that read zero bytes: recv returned with nothing.
ReadNothing(c) == unit[c].recvs = 1 /\ unit[c].data = <<>>

\* C6: a unit whose recv returned zero bytes stores nothing, calls neither
\* insert_one nor the exception handler, and closes its connection: once
\* before it ends, and it can always go on to do so.
C6_ZeroBytes ==
    \A c \in Conns :
        ReadNothing(c) =>
            /\ conns[c].cliClosed
            /\ DocsBy(c) = {}
            /\ unit[c].inserts = 0
            /\ unit[c].err = ""
            /\ unit[c].pc \in {"close", "done"}
            /\ unit[c].pc = "close" => ENABLED close(c)
            /\ unit[c].pc = "done" => conns[c].srvCloses = 1

C6_Witness ==
    \E c \in Conns :
        ReadNothing(c) /\ unit[c].pc = "done" /\ conns[c].srvCloses = 1

\* The payloads of the model that are no structured message: the first
\* segment of an object alone, and an array.
Undecodable == {<<"{">>, NotObject}

C7_NothingStored ==
    \A c \in Conns :
        unit[c].data \in Undecodable =>
            DocsBy(c) = {} /\ unit[c].inserts = 0

\* The step in which a unit fails on an undecodable payload changes nothing
\* of the server or of another unit.
C7_Contained ==
    \A c \in Conns :
        unit[c].data \in Undecodable /\ unit[c].err = "" /\ unit'[c].err # "" =>
            /\ server' = server
            /\ \A d \in Conns \ {c} : unit'[d] = unit[d]

\* The accept loop takes the next connection whatever earlier units read.
C7_StillAccepts ==
    server.pc = "accept" /\ Queued # {} => ENABLED accept(TRUE)

\* C7: a connection whose payload is no structured message stores nothing,
\* and the server goes on accepting and serving the connections after it.
C7_Malformed ==
    [](C7_NothingStored /\ C7_StillAccepts) /\ [][C7_Contained]_vars

\* A unit has ended on an undecodable payload and the accept loop is about
\* to take the next connection.
C7_Witness ==
    \E c \in Conns :
        /\ unit[c].data \in Undecodable /\ unit[c].pc = "done"
        /\ server.pc = "accept" /\ Queued # {}
        /\ \A q \in Queued : q > c

C8_OneAttempt ==
    \A c \in Conns :
        unit[c].err = "insert" =>
            /\ unit[c].inserts = 1
            /\ DocsBy(c) = {}
            /\ unit[c].pc \in {"close", "done"}

\* The step in which insert_one raises changes nothing of the server, of
\* the collection or of another unit.
C8_Contained ==
    \A c \in Conns :
        unit[c].pc = "insert" /\ unit'[c].err = "insert" =>
            /\ server' = server
            /\ collection' = collection
            /\ \A d \in Conns \ {c} : unit'[d] = unit[d]

\* A unit that is to insert can do so whatever became of the other units.
C8_OthersInsert ==
    \A c \in Conns : unit[c].pc = "insert" => ENABLED insert_one(c, TRUE)

\* C8: a unit whose insert_one raised calls it no second time and stores
\* nothing; the failure changes nothing of the accept loop or of another
\* unit, which still stores its own message.
C8_InsertFailure ==
    [](C8_OneAttempt /\ C8_OthersInsert /\ C7_StillAccepts) /\ [][C8_Contained]_vars

\* One unit's insert failed, and a unit of a later connection stored its
\* message.
C8_Witness ==
    \E c, d \in Conns :
        /\ c < d
        /\ unit[c].err = "insert" /\ unit[c].pc = "done"
        /\ DocsBy(d) # {} /\ unit[d].pc = "done"

\* C9: a unit that has ended has closed its connection, once, whichever way
\* it went: zero bytes, a decode failure, a failed insert or a stored message.
C9_ClosedOnce ==
    \A c \in Conns :
        unit[c].pc = "done" => unit[c].closes = 1 /\ conns[c].srvCloses = 1

\* Two units have ended, one by an exception and one without.
C9_Witness ==
    \E c, d \in Conns :
        /\ unit[c].pc = "done" /\ unit[c].err # ""
        /\ unit[d].pc = "done" /\ unit[d].err = ""

\* C10: nothing is ever written on a connection by the server's side, which
\* reads from it once at most and closes it once at most.
C10_OneDirection ==
    \A c \in Conns :
        /\ conns[c].toCli = <<>>
        /\ unit[c].recvs <= 1
        /\ conns[c].srvCloses <= 1

\* A unit has read a payload, stored it and closed the connection.
C10_Witness ==
    \E c \in Conns :
        unit[c].pc = "done" /\ DocsBy(c) # {} /\ conns[c].srvCloses = 1

\* The date is assigned once at most; a unit that has assigned it had read
\* bytes and decoded them to an object, and only such a unit calls
\* insert_one; a unit that read nothing, or whose payload did not decode to
\* an object, assigns none; and every stored document carries a date read
\* from the server's clock, whatever "date" the payload brought.
C11_Stamp ==
    \A c \in Conns :
        /\ unit[c].stamps <= 1
        /\ unit[c].stamps = 1 =>
                /\ unit[c].data # <<>>
                /\ unit[c].message.t = "obj"
                /\ unit[c].pc \in {"insert", "close", "done"}
                /\ unit[c].message.v[K_date].t = "datetime"
        /\ unit[c].inserts > 0 => unit[c].stamps = 1
        /\ unit[c].data = <<>> \/ unit[c].err \in {"decode", "type"} =>
                unit[c].stamps = 0
        /\ \A i \in DocsBy(c) :
                /\ K_date \in DOMAIN collection[i].doc
                /\ collection[i].doc[K_date].t = "datetime"
                /\ collection[i].doc[K_date].v < clock

\* The step that assigns the date follows the decode and precedes the
\* insert: it leads from the decoded message to insert_one and stores nothing.
C11_Order ==
    \A c \in Conns :
        unit'[c].stamps # unit[c].stamps =>
            /\ unit[c].pc = "date" /\ unit'[c].pc = "insert"
            /\ unit'[c].inserts = 0
            /\ collection' = collection

\* C11: a unit assigns the date once, after a successful decode and before
\* the insert, never after an empty read or a failed decode; the date of a
\* stored document is the server's even when the payload carried one.
C11_Timestamp == []C11_Stamp /\ [][C11_Order]_vars

\* A payload that brought its own "date" has been stored.
C11_Witness ==
    \E c \in Conns :
        /\ unit[c].data = DateOnly
        /\ DocsBy(c) # {}
        /\ \A i \in DocsBy(c) : collection[i].doc[K_date].t = "datetime"

\* The start failed: bind or listen raised.
StartFailed == server.pc # "init" /\ ~server.bound

\* C12: when bind or listen fails the server is over: it is not in the
\* accept loop, no connection is made to it or accepted, no unit is started
\* and nothing is stored.
C12_BindFailureFatal ==
    StartFailed =>
        /\ server.pc = "exited"
        /\ ~Listening
        /\ conns = <<>>
        /\ unit = <<>>
        /\ collection = <<>>
        /\ ~ENABLED accept(TRUE)
        /\ ~ENABLED thread_start(TRUE)
        /\ \A s \in Clients : req[s].conn = 0

\* The start failed, and a submission with both fields was refused and
\* redirected.
C12_Witness ==
    /\ StartFailed
    /\ \E s \in Clients :
        Posted(s) /\ NonEmpty(s) /\ req[s].pc = "done" /\ req[s].err = "transport"

\* C13: once bind and listen have succeeded the accept loop is never left:
\* the server is waiting in accept or starting a unit, also after accept or
\* Thread.start has raised.
C13_LoopNeverExits ==
    server.bound => server.pc \in {"accept", "start"}

\* The unit of connection c waits in recv: nothing has arrived and the
\* client has not closed.
BlockedInRecv(c) ==
    unit[c].pc = "recv" /\ conns[c].toSrv = <<>> /\ ~conns[c].cliClosed

\* The accept loop and each unit can take their next step whatever the
\* other units are doing; a unit waits for its own connection only.
C14_Independent ==
    /\ server.pc = "accept" /\ Queued # {} => ENABLED accept(TRUE)
    /\ server.pc = "start" => ENABLED thread_start(TRUE)
    /\ \A c \in Conns :
        /\ unit[c].pc = "recv" /\ ~BlockedInRecv(c) => ENABLED recv(c)
        /\ unit[c].pc = "loads" => ENABLED loads(c)
        /\ unit[c].pc = "date" => ENABLED set_date(c)
        /\ unit[c].pc = "insert" => ENABLED insert_one(c, TRUE)
        /\ unit[c].pc = "close" => ENABLED close(c)

\* Starting a unit hands it the accepted connection and takes the loop
\* back to accept in the same step; no other unit is touched.
C14_HandOff ==
    server.pc = "start" /\ server'.pc = "accept" =>
        /\ unit[server.conn].pc = "none"
        /\ unit'[server.conn].pc = "recv"
        /\ \A d \in Conns \ {server.conn} : unit'[d] = unit[d]
        /\ collection' = collection

\* A step of a running unit leaves the accept loop and the other units as
\* they are.
C14_UnitLocal ==
    \A c \in Conns :
        unit[c].pc # "none" /\ unit'[c] # unit[c] =>
            /\ server' = server
            /\ \A d \in Conns \ {c} : unit'[d] = unit[d]

\* C14: the accept loop starts a unit for the accepted connection and
\* accepts again without waiting for any unit; a unit that waits in recv or
\* has not finished its insert delays neither the accept nor the insert of
\* a later connection.
C14_NeverWaits == []C14_Independent /\ [][C14_HandOff /\ C14_UnitLocal]_vars

\* A unit waits in recv for a client that sends nothing, and the message of
\* a later connection has been stored.
C14_Witness ==
    \E c, d \in Conns :
        /\ c < d
        /\ BlockedInRecv(c)
        /\ unit[d].pc = "done" /\ DocsBy(d) # {}

\* The connections accept has returned, and those of them the ingress opened.
Accepted == {c \in Conns : conns[c].state = "accepted"}
AcceptedFromIngress == {c \in Accepted : conns[c].src[1] = "req"}

\* The submissions with both fields non-empty.
ValidSubmissions == {s \in Clients : Posted(s) /\ NonEmpty(s)}

\* One connection attempt and one send per submission, one insert attempt
\* per connection.
OneShot ==
    /\ \A s \in Clients : req[s].connects <= 1 /\ req[s].sends <= 1
    /\ \A c \in Conns : unit[c].inserts <= 1 /\ Cardinality(DocsBy(c)) <= 1

\* C15 as stated: no attempt is repeated, and the documents are no more
\* than the accepted connections, which are no more than the valid
\* submissions.
C15_NoRetries ==
    /\ OneShot
    /\ Len(collection) <= Cardinality(Accepted)
    /\ Cardinality(Accepted) <= Cardinality(ValidSubmissions)

\* C15 as amended: no attempt is repeated, the documents are no more than
\* the accepted connections, and the accepted connections that the ingress
\* opened are no more than the valid submissions.
C15_NoRetriesIngress ==
    /\ OneShot
    /\ Len(collection) <= Cardinality(Accepted)
    /\ Cardinality(AcceptedFromIngress) <= Cardinality(ValidSubmissions)
    /\ \A s \in Clients :
        Cardinality({c \in Conns : conns[c].src = <<"req", s>>}) <= 1

\* One submission was refused and another lost its document to a failed
\* insert; neither was tried again.
C15_Witness ==
    \E s1, s2 \in Clients :
        /\ req[s1].pc = "done" /\ req[s1].err = "transport" /\ req[s1].connects = 1
        /\ req[s2].pc = "done" /\ req[s2].conn # 0
        /\ unit[req[s2].conn].pc = "done"
        /\ unit[req[s2].conn].err = "insert"
        /\ unit[req[s2].conn].inserts = 1

IsPrefix(a, b) == Len(a) <= Len(b) /\ SubSeq(b, 1, Len(a)) = a

\* The payload fields of a decoded object or of a document: all but the date.
Fields(f) == [k \in DOMAIN f \ {K_date} |-> f[k]]

\* One read of 1024 bytes at most, and a stored document is the decoding
\* of the bytes of that read.
C16_OneBuffer ==
    \A c \in Conns :
        /\ unit[c].recvs <= 1
        /\ Len(unit[c].data) <= RecvBufSize
        /\ unit[c].recvs = 0 => unit[c].data = <<>>
        /\ \A i \in DocsBy(c) :
            LET r == JsonLoads(unit[c].data)
            IN r.ok /\ r.v.t = "obj"
                    /\ Fields(collection[i].doc) = Fields(r.v.v)

\* The read takes the first bytes that have arrived and leaves the rest;
\* after it the unit takes no byte from the connection, whatever arrives,
\* and keeps the bytes it read as they are.
C16_SingleRead ==
    \A c \in Conns :
        /\ unit[c].recvs = 0 /\ unit'[c].recvs = 1 =>
                /\ unit'[c].data \o conns'[c].toSrv = conns[c].toSrv
                /\ Len(conns[c].toSrv) > RecvBufSize =>
                        Len(unit'[c].data) = RecvBufSize
        /\ unit[c].recvs = 1 =>
                /\ unit'[c].recvs = 1
                /\ unit'[c].data = unit[c].data
                /\ IsPrefix(conns[c].toSrv, conns'[c].toSrv)

\* C16: a unit reads once and takes 1024 bytes at most; of a payload that
\* is longer, or that arrives in several segments, only the bytes of that
\* read are decoded, and the rest is never read, decoded or stored.
C16_Truncation == []C16_OneBuffer /\ [][C16_SingleRead]_vars

\* One unit has ended having read 1024 bytes of a longer payload, and
\* another having read the first segment of a payload whose second segment
\* arrived later; what they did not read is still in the connection.
C16_Witness ==
    \E c, d \in Conns :
        /\ unit[c].pc = "done" /\ Len(unit[c].data) = RecvBufSize
        /\ conns[c].toSrv = <<"}">>
        /\ unit[d].pc = "done" /\ unit[d].data = <<"{">>
        /\ conns[d].toSrv = Tail(DateOnly)
        /\ collection = <<>>

\* A unit that has bytes to read or a closed connection before it, or that
\* is past its read, comes to its end with the connection closed.
\* The thread of connection c runs and can take a step.
Runnable(c) ==
    IF c \in Conns
    THEN unit[c].pc \notin {"none", "done"} /\ ~BlockedInRecv(c)
    ELSE FALSE

\* The thread of connection c has ended and the connection is closed.
Terminated(c) ==
    IF c \in Conns
    THEN unit[c].pc = "done" /\ conns[c].srvCloses = 1
    ELSE FALSE

C17_Progress == \A c \in Clients : Runnable(c) ~> Terminated(c)

\* A unit that waits in recv cannot take a step.
C17_Blocked ==
    \A c \in Conns : BlockedInRecv(c) => ~ENABLED recv(c) /\ ~ENABLED close(c)

\* A unit that waits in recv stays as it is in every step: only its client,
\* sending or closing, ends the wait.
C17_StaysBlocked ==
    \A c \in Conns :
        BlockedInRecv(c) =>
            /\ unit'[c] = unit[c]
            /\ conns'[c].srvCloses = 0

\* C17: with the threads scheduled fairly, a unit whose client sends bytes
\* or closes reaches its end and closes the connection; a unit whose client
\* does neither waits in recv and nothing but the client ends the wait.
C17_Termination == C17_Progress /\ []C17_Blocked /\ [][C17_StaysBlocked]_vars

\* One unit has read, ended and closed, and another waits in recv for a
\* client that is connected and silent.
C17_Witness ==
    \E c, d \in Conns :
        /\ unit[c].pc = "done" /\ unit[c].recvs = 1 /\ conns[c].srvCloses = 1
        /\ BlockedInRecv(d)
        /\ \E p \in Clients : peer[p].pc = "open" /\ peer[p].conn = d

\* C18: a POST to /message is answered with one response, the failure page
\* or the redirect: not both, and not none.
C18_ExactlyOneResponse ==
    \A s \in Clients :
        Posted(s) /\ Ended(s) =>
            /\ Len(req[s].resp) = 1
            /\ req[s].resp[1] \in {"404 error.html", "302 /"}

\* Field k of document d is a non-empty text.
NonEmptyText(d, k) == k \in DOMAIN d /\ d[k].t = "str" /\ d[k].v # <<>>

\* C19: every stored document has a non-empty username and a non-empty
\* message, whoever connected and whatever was sent.
C19_FieldsNonEmpty ==
    \A i \in 1..Len(collection) :
        /\ NonEmptyText(collection[i].doc, K_username)
        /\ NonEmptyText(collection[i].doc, K_message)

\* C20: send_error_page returns, with error.html at hand or missing: it
\* does not call itself through send_html_file until the interpreter gives up.
C20_ErrorPageReturns ==
    \A s \in Clients :
        req[s].pc # "crashed" /\ req[s].depth < MaxRecursion

====
